---- MODULE Spec2Model ----
(***************************************************************************)
(* Model of bsonx/element.go: an Element is a lazy view (start, offset)    *)
(* over a shared byte buffer, with an optional materialised document `d`.  *)
(* Go offsets are 0-based; sequences here are 1-based, so data[i] in Go is *)
(* data[i+1] here and data[lo:hi] is SubSeq(data, lo+1, hi).               *)
(* Unsigned Go integers that wrapped below zero are kept as their negative *)
(* representative: such a value is larger than every buffer length.        *)
(***************************************************************************)
EXTENDS Integers, Sequences, FiniteSets, TLC

VARIABLES data, elems, arg, b, ret

vars == <<data, elems, arg, b, ret>>

\* ---------------------------------------------------------------- bounds
MaxElems == 2
MaxDestStart == 1
MaxSlack == 8
MaxShort == 1
MaxOff == 3

\* ------------------------------------------------------------- type tags
TagString == 2
TagDocument == 3
TagArray == 4
TagCodeWithScope == 15
TagInt32 == 16

\* -------------------------------------------------------- Go built-ins
Min(x, y) == IF x < y THEN x ELSE y

\* s[lo:hi] is legal (no "slice bounds out of range" panic)
SliceOK(s, lo, hi) == lo >= 0 /\ hi >= 0 /\ lo <= hi /\ hi <= Len(s)

Slice(s, lo, hi) == SubSeq(s, lo + 1, hi)

\* s[i] is legal (no "index out of range" panic)
IndexOK(s, i) == i >= 0 /\ i < Len(s)

\* copy(dst[at:], src): copies min(len(dst)-at, len(src)) bytes
copy(dst, at, src) ==
  LET n == Min(Len(dst) - at, Len(src))
  IN [n |-> n,
      b |-> [i \in 1..Len(dst) |->
               IF i > at /\ i <= at + n THEN src[i - at] ELSE dst[i]]]

Zeros(n) == [i \in 1..n |-> 0]

\* little-endian signed 32-bit read of a 4-byte slice
readi32(s) ==
  s[1] + 256 * s[2] + 65536 * s[3]
    + 16777216 * (IF s[4] >= 128 THEN s[4] - 256 ELSE s[4])

\* the 4 little-endian bytes of a signed 32-bit value
le32(v) ==
  <<v % 256, (v \div 256) % 256, (v \div 65536) % 256, (v \div 16777216) % 256>>

\* elements.Int32.Encode(pos, buf, v): writes 4 bytes, fails if they do not fit
Int32Encode(pos, buf, v) ==
  IF pos < 0 \/ pos + 4 > Len(buf)
  THEN [n |-> 0, err |-> "ElementsErrTooSmall", buf |-> buf]
  ELSE [n |-> 4, err |-> "nil", buf |-> copy(buf, pos, le32(v)).b]

\* ------------------------------------------------------ the override d
NoDoc == [present |-> FALSE, body |-> <<>>, verr |-> "nil", werr |-> "nil"]

Doc(body, verr, werr) ==
  [present |-> TRUE, body |-> body, verr |-> verr, werr |-> werr]

\* Document.Validate: 4-byte length + the children + the terminator
Document_Validate(d) == [n |-> 4 + Len(d.body) + 1, err |-> d.verr]

\* Document.writeByteSlice(start, size, b): writes its own length prefix,
\* its children and the terminator; surfaces its own error when it has one.
Document_writeByteSlice(d, start, size, dst) ==
  IF size < 0 \/ start < 0 \/ Len(dst) < start + size
  THEN [n |-> 0, err |-> "ErrTooSmall", b |-> dst]
  ELSE IF d.werr # "nil"
  THEN [n |-> 0, err |-> d.werr, b |-> dst]
  ELSE LET out == le32(size) \o d.body \o <<0>>
           c == copy(dst, start, out)
       IN [n |-> c.n,
           err |-> IF c.n < Len(out) THEN "ErrTooSmall" ELSE "nil",
           b |-> c.b]

\* Array{doc: d}.writeByteSlice: an array is written as its backing document
Array_writeByteSlice(d, start, size, dst) ==
  Document_writeByteSlice(d, start, size, dst)

\* Document.Copy: a deep copy is an equal value
Document_Copy(d) == d

\* ------------------------------------------------------------- elements
NilElement == [isNil |-> TRUE, hasValue |-> FALSE, start |-> 0, offset |-> 0,
               hasData |-> FALSE, d |-> NoDoc]

UnsetElement == [NilElement EXCEPT !.isNil = FALSE]

newElement(start, offset) ==
  [isNil |-> FALSE, hasValue |-> TRUE, start |-> start, offset |-> offset,
   hasData |-> FALSE, d |-> NoDoc]

Elem(start, offset, d) ==
  [newElement(start, offset) EXCEPT !.hasData = TRUE, !.d = d]

RECURSIVE scanKey(_, _, _)
\* the loop of validateKey: first pos with pos >= end or data[pos] = 0
scanKey(buf, pos, end) ==
  IF pos < end /\ buf[pos + 1] # 0 THEN scanKey(buf, pos + 1, end) ELSE pos

validateKey(e, buf) ==
  IF ~e.hasData
  THEN [n |-> 0, err |-> "UninitializedElement", panic |-> FALSE]
  ELSE LET end == IF e.offset > Len(buf) THEN Len(buf) ELSE e.offset
           pos == scanKey(buf, e.start + 1, end)
           total == pos - (e.start + 1)
       IN IF pos = end
          THEN [n |-> total, err |-> "InvalidKey", panic |-> FALSE]
          ELSE IF ~IndexOK(buf, pos)
          THEN [n |-> total, err |-> "nil", panic |-> TRUE]
          ELSE IF buf[pos + 1] # 0
          THEN [n |-> total, err |-> "InvalidKey", panic |-> FALSE]
          ELSE [n |-> total + 1, err |-> "nil", panic |-> FALSE]

\* Value.validate(false): the payload's own structural check, by type tag
Value_validate(e, buf) ==
  LET o == e.offset
      fail(n, err) == [n |-> n, err |-> err]
  IN IF ~IndexOK(buf, e.start) \/ o > Len(buf) THEN fail(0, "ErrTooSmall")
     ELSE CASE buf[e.start + 1] = TagInt32 ->
                 IF o + 4 > Len(buf) THEN fail(0, "ErrTooSmall")
                 ELSE fail(4, "nil")
            [] buf[e.start + 1] = TagString ->
                 IF o + 4 > Len(buf) THEN fail(0, "ErrTooSmall")
                 ELSE LET l == readi32(Slice(buf, o, o + 4))
                      IN IF l < 1 \/ o + 4 + l > Len(buf)
                         THEN fail(4, "ErrTooSmall")
                         ELSE IF buf[o + 4 + l] # 0
                         THEN fail(4 + l, "InvalidString")
                         ELSE fail(4 + l, "nil")
            [] buf[e.start + 1] \in {TagDocument, TagArray} ->
                 IF e.d.present THEN Document_Validate(e.d)
                 ELSE IF o + 4 > Len(buf) THEN fail(0, "ErrTooSmall")
                 ELSE LET l == readi32(Slice(buf, o, o + 4))
                      IN IF l < 5 \/ o + l > Len(buf)
                         THEN fail(4, "ErrTooSmall")
                         ELSE IF buf[o + l] # 0
                         THEN fail(l, "InvalidDocument")
                         ELSE fail(l, "nil")
            [] buf[e.start + 1] = TagCodeWithScope ->
                 IF o + 8 > Len(buf) THEN fail(0, "ErrTooSmall")
                 ELSE LET cl == readi32(Slice(buf, o + 4, o + 8))
                      IN IF cl < 1 \/ o + 8 + cl > Len(buf)
                         THEN fail(8, "ErrTooSmall")
                         ELSE IF buf[o + 8 + cl] # 0
                         THEN fail(8 + cl, "InvalidString")
                         ELSE IF e.d.present
                         THEN LET dv == Document_Validate(e.d)
                              IN fail(8 + cl + dv.n, dv.err)
                         ELSE IF o + 8 + cl + 4 > Len(buf)
                         THEN fail(8 + cl, "ErrTooSmall")
                         ELSE LET sl == readi32(Slice(buf, o + 8 + cl,
                                                      o + 12 + cl))
                              IN IF sl < 5 \/ o + 8 + cl + sl > Len(buf)
                                 THEN fail(8 + cl, "ErrTooSmall")
                                 ELSE fail(8 + cl + sl, "nil")
            [] OTHER -> fail(0, "InvalidElement")

Validate(e, buf) ==
  IF e.isNil THEN [n |-> 0, err |-> "NilElement", panic |-> FALSE]
  ELSE IF ~e.hasValue
  THEN [n |-> 0, err |-> "UninitializedElement", panic |-> FALSE]
  ELSE LET k == validateKey(e, buf)
       IN IF k.panic \/ k.err # "nil"
          THEN [n |-> 1 + k.n, err |-> k.err, panic |-> k.panic]
          ELSE LET v == Value_validate(e, buf)
               IN [n |-> 1 + k.n + v.n, err |-> v.err, panic |-> FALSE]

KeyOK(e, buf) ==
  IF e.isNil \/ ~e.hasValue \/ e.offset = 0 \/ ~e.hasData
  THEN [key |-> <<>>, ok |-> FALSE, panic |-> FALSE]
  ELSE IF ~SliceOK(buf, e.start + 1, e.offset - 1)
  THEN [key |-> <<>>, ok |-> FALSE, panic |-> TRUE]
  ELSE [key |-> Slice(buf, e.start + 1, e.offset - 1), ok |-> TRUE,
        panic |-> FALSE]

Key(e, buf) ==
  LET k == KeyOK(e, buf)
  IN IF ~k.ok THEN [key |-> <<>>, panic |-> TRUE]
     ELSE [key |-> k.key, panic |-> FALSE]

\* Value.Equal: same type tag and equal payloads (equal overrides if both set)
Value_Equal(e, e2, buf) ==
  IF ~IndexOK(buf, e.start) \/ ~IndexOK(buf, e2.start) THEN FALSE
  ELSE IF buf[e.start + 1] # buf[e2.start + 1] THEN FALSE
  ELSE IF e.d.present /\ e2.d.present THEN e.d = e2.d
  ELSE IF ~SliceOK(buf, e.offset, Len(buf)) \/ ~SliceOK(buf, e2.offset, Len(buf))
  THEN FALSE
  ELSE LET v == Value_validate(e, buf)
           v2 == Value_validate(e2, buf)
       IN v.n = v2.n
          /\ Slice(buf, e.offset, Min(Len(buf), e.offset + v.n))
               = Slice(buf, e2.offset, Min(Len(buf), e2.offset + v2.n))

Equal(e, e2, buf) ==
  IF e.isNil /\ e2.isNil THEN [eq |-> TRUE, panic |-> FALSE]
  ELSE IF e.isNil \/ e2.isNil THEN [eq |-> FALSE, panic |-> FALSE]
  ELSE LET k == Key(e, buf)
           k2 == Key(e2, buf)
       IN IF k.panic \/ k2.panic THEN [eq |-> FALSE, panic |-> TRUE]
          ELSE IF k.key # k2.key THEN [eq |-> FALSE, panic |-> FALSE]
          ELSE [eq |-> Value_Equal(e, e2, buf), panic |-> FALSE]

\* Clone: a new Value with the same start, offset, data and d
Clone(e) == [isNil |-> FALSE, hasValue |-> TRUE, start |-> e.start,
             offset |-> e.offset, hasData |-> e.hasData, d |-> e.d]

\* ------------------------------------------------------- writeByteSlice
NoCall == [called |-> FALSE, start |-> 0, size |-> 0, n |-> 0, hdr |-> 0]

\* the outcome of a write: bytes written, error, panic, the destination and
\* the source buffer afterwards, one past the highest source index read, and
\* the call made to the override
W(n, err, panic, dst, buf, rd, dg) ==
  [n |-> n, err |-> err, panic |-> panic, b |-> dst, data |-> buf,
   rd |-> rd, dg |-> dg]

Max(x, y) == IF x > y THEN x ELSE y

\* the key is written even when it is not wanted
startToWrite_always(e, key) == e.start

startToWrite(e, key) == IF key THEN e.start ELSE e.offset

\* needed := start + uint(size), less offset - start - 1 without the key
needed(e, key, start, size) ==
  IF key THEN start + size
  ELSE start + size - (e.offset - e.start - 1)

\* the header without its terminator
header_short(e) == e.offset - e.start - 1

header(e) == e.offset - e.start

\* the code-string length field is left out of the total
lengthWithoutScope_short(codeLength) == 4 + codeLength

lengthWithoutScope(codeLength) == 4 + 4 + codeLength

\* the total is encoded at the element's start instead of its payload
patchOffset_atStart(e) == e.start

\* where the code-with-scope total length is encoded in the source buffer
patchOffset(e) == e.offset

\* n = copy(b[start:], data[startToWrite : e.value.start+size])
copyRaw(e, key, start, size, dst, buf, rd) ==
  LET lo == startToWrite(e, key)
      hi == e.start + size
  IN IF start > Len(dst) \/ ~SliceOK(buf, lo, hi)
     THEN W(0, "nil", TRUE, dst, buf, rd, NoCall)
     ELSE LET c == copy(dst, start, Slice(buf, lo, hi))
          IN W(c.n, "nil", FALSE, c.b, buf,
               IF c.n > 0 THEN Max(rd, lo + c.n) ELSE rd, NoCall)

\* case '\x03' / '\x04' with an override: header, then the override
writeContainer(e, key, start, size, dst, buf, rd, isArray) ==
  LET hdr == header(e)
      size2 == size - hdr
      lo == startToWrite(e, key)
  IN IF key /\ (start > Len(dst) \/ ~SliceOK(buf, lo, e.offset))
     THEN W(0, "nil", TRUE, dst, buf, rd, NoCall)
     ELSE LET c == IF key THEN copy(dst, start, Slice(buf, lo, e.offset))
                   ELSE [n |-> 0, b |-> dst]
              start2 == start + c.n
              nn == IF isArray
                    THEN Array_writeByteSlice(e.d, start2, size2, c.b)
                    ELSE Document_writeByteSlice(e.d, start2, size2, c.b)
          IN W(c.n + nn.n, nn.err, FALSE, nn.b, buf,
               IF c.n > 0 THEN Max(rd, lo + c.n) ELSE rd,
               [called |-> TRUE, start |-> start2, size |-> size2,
                n |-> nn.n, hdr |-> c.n])

\* case '\x0F' with an override
writeCodeWithScope(e, key, start, dst, buf, rd, codeLength) ==
  LET lws == lengthWithoutScope(codeLength)
      sv == Document_Validate(e.d)
      enc == Int32Encode(patchOffset(e), buf, lws + sv.n)
      codeEnd == e.offset + lws
      lo == startToWrite(e, key)
  IN IF sv.err # "nil" THEN W(0, sv.err, FALSE, dst, buf, rd, NoCall)
     ELSE IF enc.err # "nil" THEN W(0, enc.err, FALSE, dst, buf, rd, NoCall)
     ELSE IF start > Len(dst) \/ ~SliceOK(enc.buf, lo, codeEnd)
     THEN W(0, "nil", TRUE, dst, enc.buf, rd, NoCall)
     ELSE LET c == copy(dst, start, Slice(enc.buf, lo, codeEnd))
              nn == Document_writeByteSlice(e.d, start + c.n, sv.n, c.b)
          IN W(c.n + nn.n, nn.err, FALSE, nn.b, enc.buf,
               IF c.n > 0 THEN Max(rd, lo + c.n) ELSE rd,
               [called |-> TRUE, start |-> start + c.n, size |-> sv.n,
                n |-> nn.n, hdr |-> c.n])

\* case '\x0F' without an override: recompute the total length, fall through
patchCodeWithScope(e, key, start, size, dst, buf, rd, codeLength) ==
  LET scopeStart == e.offset + 4 + 4 + codeLength
  IN IF ~SliceOK(buf, scopeStart, scopeStart + 4)
     THEN W(0, "nil", TRUE, dst, buf, rd, NoCall)
     ELSE LET scopeLength == readi32(Slice(buf, scopeStart, scopeStart + 4))
              codeWithScopeEnd == scopeStart + scopeLength
              enc == Int32Encode(patchOffset(e), buf,
                                 codeWithScopeEnd - e.offset)
          IN IF enc.err # "nil"
             THEN W(0, enc.err, FALSE, dst, buf, rd, NoCall)
             ELSE copyRaw(e, key, start, size, dst, enc.buf,
                          Max(rd, scopeStart + 4))

writeByteSlice(e, key, start, size, dst, buf) ==
  LET m == needed(e, key, start, size)
  IN IF e.isNil \/ ~e.hasValue
     THEN W(0, "nil", TRUE, dst, buf, 0, NoCall)
     ELSE IF m < 0 \/ Len(dst) < m
     THEN W(0, "ErrTooSmall", FALSE, dst, buf, 0, NoCall)
     ELSE IF ~e.hasData \/ ~IndexOK(buf, e.start)
     THEN W(0, "nil", TRUE, dst, buf, 0, NoCall)
     ELSE LET tag == buf[e.start + 1]
              rd == e.start + 1
          IN IF tag \in {TagDocument, TagArray}
             THEN IF ~e.d.present
                  THEN copyRaw(e, key, start, size, dst, buf, rd)
                  ELSE writeContainer(e, key, start, size, dst, buf, rd,
                                      tag = TagArray)
             ELSE IF tag = TagCodeWithScope
             THEN LET codeStart == e.offset + 4
                  IN IF ~SliceOK(buf, codeStart, codeStart + 4)
                     THEN W(0, "nil", TRUE, dst, buf, rd, NoCall)
                     ELSE LET codeLength ==
                                readi32(Slice(buf, codeStart, codeStart + 4))
                              rd2 == Max(rd, codeStart + 4)
                          IN IF e.d.present
                             THEN writeCodeWithScope(e, key, start, dst, buf,
                                                     rd2, codeLength)
                             ELSE patchCodeWithScope(e, key, start, size, dst,
                                                     buf, rd2, codeLength)
             ELSE copyRaw(e, key, start, size, dst, buf, rd)

newErrTooSmall == "ErrTooSmall"

MarshalBSON(e, buf) ==
  LET v == Validate(e, buf)
  IN IF v.panic THEN W(0, "nil", TRUE, <<>>, buf, 0, NoCall)
     ELSE IF v.err # "nil" THEN W(0, v.err, FALSE, <<>>, buf, 0, NoCall)
     ELSE LET w == writeByteSlice(e, TRUE, 0, v.n, Zeros(v.n), buf)
          IN IF w.err # "nil" THEN [w EXCEPT !.b = <<>>] ELSE w

\* writeElement(key, start, writer) for the three kinds of writer
writeElement(e, key, start, kind, dst, buf) ==
  LET v == Validate(e, buf)
  IN IF v.panic THEN W(0, "nil", TRUE, dst, buf, 0, NoCall)
     ELSE IF v.err # "nil" THEN W(0, v.err, FALSE, dst, buf, 0, NoCall)
     ELSE IF kind = "bytes"
     THEN LET w == writeByteSlice(e, key, start, v.n, dst, buf)
          IN IF ~w.panic /\ w.err # "nil"
             THEN [w EXCEPT !.n = 0, !.err = newErrTooSmall]
             ELSE w
     ELSE IF kind = "writer"
     THEN LET w == MarshalBSON(e, buf)
          IN [w EXCEPT !.n = IF w.err = "nil" THEN Len(w.b) ELSE 0, !.b = dst]
     ELSE W(0, "InvalidWriter", FALSE, dst, buf, 0, NoCall)

WriteElement(e, start, kind, dst, buf) ==
  writeElement(e, TRUE, start, kind, dst, buf)

\* convertValueToElem(key, v): the new element and its fresh buffer
convertValueToElem(key, e, buf) ==
  IF ~e.hasValue \/ e.offset = 0 \/ ~e.hasData
  THEN [isNil |-> TRUE, panic |-> FALSE, elem |-> NilElement, data |-> <<>>]
  ELSE IF ~SliceOK(buf, e.offset, Len(buf)) \/ ~IndexOK(buf, e.start)
  THEN [isNil |-> TRUE, panic |-> TRUE, elem |-> NilElement, data |-> <<>>]
  ELSE LET keyLen == Len(key)
           d0 == Zeros(2 + Len(key) + Len(Slice(buf, e.offset, Len(buf))))
           d1 == [d0 EXCEPT ![1] = buf[e.start + 1]]
           d2 == copy(d1, 1, key).b
           d3 == [d2 EXCEPT ![keyLen + 2] = 0]
           d4 == copy(d3, keyLen + 2, Slice(buf, e.offset, Len(buf))).b
           elem == [newElement(0, keyLen + 2) EXCEPT
                      !.hasData = TRUE,
                      !.d = IF e.d.present THEN Document_Copy(e.d) ELSE NoDoc]
       IN [isNil |-> FALSE, panic |-> FALSE, elem |-> elem, data |-> d4]

\* ------------------------------------------------ buffers and elements
\* 02 'x' 00 | 03 00 00 00 'h' 'i' 00
StrX == <<2, 120, 0, 3, 0, 0, 0, 104, 105, 0>>
IntA == <<16, 97, 0, 1, 0, 0, 0>>
IntB == <<16, 98, 0, 2, 0, 0, 0>>
\* 03 'd' 00 | empty document
DocE == <<3, 100, 0, 5, 0, 0, 0, 0>>
ArrE == <<4, 100, 0, 5, 0, 0, 0, 0>>
\* 0F 'c' 00 | total | code length 2 | 'f' 00 | empty scope document
Cws(total) == <<15, 99, 0>> \o le32(total) \o <<2, 0, 0, 0, 102, 0, 5, 0, 0, 0, 0>>
\* a key that is never terminated
NoTerm == <<2, 120, 121>>

DocSmall == Doc(<<>>, "nil", "nil")
DocBig == Doc(IntB, "nil", "nil")
DocBadV == Doc(IntB, "InvalidKey", "nil")
DocBadW == Doc(IntB, "nil", "ElementsErrTooSmall")

Parsed ==
  {[data |-> StrX, elems |-> <<Elem(0, 3, NoDoc)>>],
   [data |-> IntA \o IntB, elems |-> <<Elem(0, 3, NoDoc), Elem(7, 10, NoDoc)>>]}
  \cup {[data |-> DocE \o IntA, elems |-> <<Elem(0, 3, d)>>] :
          d \in {NoDoc, DocBig, DocBadV, DocBadW}}
  \cup {[data |-> ArrE, elems |-> <<Elem(0, 3, d)>>] : d \in {NoDoc, DocSmall}}
  \cup {[data |-> Cws(15) \o IntA, elems |-> <<Elem(0, 3, d)>>] :
          d \in {DocSmall, DocBig}}
  \cup {[data |-> Cws(9) \o IntA, elems |-> <<Elem(0, 3, d)>>] :
          d \in {NoDoc, DocBig}}

\* elements that share one source buffer
Shared ==
  {[data |-> IntA \o IntB, elems |-> <<Elem(0, 3, NoDoc), Elem(7, 10, NoDoc)>>]}
  \cup {[data |-> Cws(t) \o IntA, elems |-> <<Elem(0, 3, d)>>] :
          t \in {15, 9}, d \in {NoDoc, DocBig}}

\* views with arbitrary offsets, as newElement lets a caller construct them
Free ==
  {[data |-> buf, elems |-> <<Elem(s, o, NoDoc)>>] :
     buf \in {NoTerm, <<>>, IntA, StrX}, s \in 0..MaxOff, o \in 0..MaxOff}
  \cup {[data |-> IntA, elems |-> <<NilElement, UnsetElement>>],
        [data |-> IntA, elems |-> <<newElement(0, 3), Elem(0, 3, NoDoc)>>],
        [data |-> IntA \o IntB,
         elems |-> <<Elem(0, 3, NoDoc), Elem(7, 10, DocSmall)>>]}

Keys == {<<>>, <<107>>}

\* the arguments of the write calls of one run: includeKey, destStart, how
\* knownSize relates to Validate's size, how the destination relates to needed
Args ==
  [key : BOOLEAN, start : {0, MaxDestStart},
   size : {"exact", "short", "tiny"}, slack : {-1, 0, MaxSlack}]

NoArgs == [key |-> TRUE, start |-> 0, size |-> "exact", slack |-> 0]

SizeOf(e, buf, a) ==
  LET v == Validate(e, buf).n
  IN IF a.size = "exact" THEN v
     ELSE IF a.size = "short" /\ v >= MaxShort THEN v - MaxShort
     ELSE MaxShort

DestLen(e, a, size) ==
  LET l == needed(e, a.key, a.start, size) + a.slack
  IN IF l < 0 THEN 0 ELSE l

\* ------------------------------------------------------------ the machine
Init ==
  /\ \E sc \in Parsed : data = sc.data /\ elems = sc.elems
  /\ arg \in Args
  /\ b = <<>>
  /\ ret = [op |-> "none"]

DoValidate(i) ==
  /\ ret' = [op |-> "Validate", i |-> i, r |-> Validate(elems[i], data)]
  /\ UNCHANGED <<data, elems, arg, b>>

DoKeyOK(i) ==
  /\ ret' = [op |-> "KeyOK", i |-> i, r |-> KeyOK(elems[i], data)]
  /\ UNCHANGED <<data, elems, arg, b>>

DoKey(i) ==
  /\ ret' = [op |-> "Key", i |-> i, r |-> Key(elems[i], data)]
  /\ UNCHANGED <<data, elems, arg, b>>

DoEqual(i, j) ==
  /\ ret' = [op |-> "Equal", i |-> i, j |-> j,
             r |-> Equal(elems[i], elems[j], data)]
  /\ UNCHANGED <<data, elems, arg, b>>

\* Clone dereferences e.value: a nil element or a nil value panics
DoClone(i) ==
  /\ Len(elems) < MaxElems
  /\ IF elems[i].isNil \/ ~elems[i].hasValue
     THEN /\ ret' = [op |-> "Clone", i |-> i, panic |-> TRUE]
          /\ UNCHANGED elems
     ELSE /\ ret' = [op |-> "Clone", i |-> i, panic |-> FALSE]
          /\ elems' = Append(elems, Clone(elems[i]))
  /\ UNCHANGED <<data, arg, b>>

WriteRet(i, key, start, size, b0, w, again, chain, prev) ==
  [op |-> "writeByteSlice", i |-> i, key |-> key, start |-> start,
   size |-> size, b0 |-> b0, data0 |-> data, w |-> w,
   again |-> again, chain |-> chain, prev |-> prev]

NoPrev == [start |-> 0, n |-> 0]

DoWriteByteSlice(i) ==
  \E size \in {SizeOf(elems[i], data, arg)} :
    \E b0 \in {Zeros(DestLen(elems[i], arg, size))} :
      \E w \in {writeByteSlice(elems[i], arg.key, arg.start, size, b0, data)} :
        /\ b' = w.b
        /\ data' = w.data
        /\ ret' = WriteRet(i, arg.key, arg.start, size, b0, w, FALSE, FALSE,
                           NoPrev)
        /\ UNCHANGED <<elems, arg>>

\* the same call again, on the buffers the first call left
DoWriteAgain ==
  /\ ret.op = "writeByteSlice" /\ ~ret.again /\ ~ret.w.panic
  /\ \E w \in {writeByteSlice(elems[ret.i], ret.key, ret.start, ret.size,
                              b, data)} :
       /\ b' = w.b
       /\ data' = w.data
       /\ ret' = WriteRet(ret.i, ret.key, ret.start, ret.size, b, w, TRUE,
                          FALSE, [start |-> ret.start, n |-> ret.w.n])
  /\ UNCHANGED <<elems, arg>>

\* the next element, written where the previous write stopped
DoWriteNext(j) ==
  /\ ret.op = "writeByteSlice" /\ ~ret.again /\ ~ret.w.panic
  /\ ret.w.err = "nil"
  /\ \E v \in {Validate(elems[j], data)} :
       /\ ~v.panic /\ v.err = "nil"
       /\ ret.start + ret.w.n + v.n <= Len(b)
       /\ \E w \in {writeByteSlice(elems[j], arg.key, ret.start + ret.w.n,
                                   v.n, b, data)} :
            /\ b' = w.b
            /\ data' = w.data
            /\ ret' = WriteRet(j, arg.key, ret.start + ret.w.n, v.n, b, w,
                               FALSE, TRUE,
                               [start |-> ret.start, n |-> ret.w.n])
  /\ UNCHANGED <<elems, arg>>

DoWriteElement(i, kind) ==
  /\ arg.size = "exact"
  /\ \E b0 \in {Zeros(DestLen(elems[i], arg, Validate(elems[i], data).n))} :
       \E w \in {IF arg.key
                 THEN WriteElement(elems[i], arg.start, kind, b0, data)
                 ELSE writeElement(elems[i], FALSE, arg.start, kind, b0, data)} :
         /\ b' = w.b
         /\ data' = w.data
         /\ ret' = [op |-> "writeElement", i |-> i, key |-> arg.key,
                    start |-> arg.start, kind |-> kind, b0 |-> b0,
                    data0 |-> data, w |-> w]
  /\ UNCHANGED <<elems, arg>>

DoMarshalBSON(i) ==
  \E w \in {MarshalBSON(elems[i], data)} :
    /\ data' = w.data
    /\ ret' = [op |-> "MarshalBSON", i |-> i, data0 |-> data, w |-> w]
    /\ UNCHANGED <<elems, arg, b>>

DoConvertValueToElem(i, key) ==
  /\ ret' = [op |-> "convertValueToElem", i |-> i, key |-> key,
             r |-> convertValueToElem(key, elems[i], data)]
  /\ UNCHANGED <<data, elems, arg, b>>

\* serialisation of parsed elements
Next ==
  \/ \E i \in 1..Len(elems) : DoValidate(i)
  \/ \E i \in 1..Len(elems) : DoWriteByteSlice(i)
  \/ \E j \in 1..Len(elems) : DoWriteNext(j)
  \/ \E i \in 1..Len(elems), kind \in {"bytes", "writer", "other"} :
       DoWriteElement(i, kind)
  \/ \E i \in 1..Len(elems) : DoMarshalBSON(i)

Spec == Init /\ [][Next]_vars

\* elements and their clones over one shared source buffer
InitShared ==
  /\ \E sc \in Shared : data = sc.data /\ elems = sc.elems
  /\ arg \in Args
  /\ b = <<>>
  /\ ret = [op |-> "none"]

NextShared ==
  \/ \E i \in 1..Len(elems) : DoValidate(i)
  \/ \E i \in 1..Len(elems) : DoKeyOK(i)
  \/ \E i \in 1..Len(elems), j \in 1..Len(elems) : DoEqual(i, j)
  \/ \E i \in 1..Len(elems) : DoClone(i)
  \/ \E i \in 1..Len(elems) : DoWriteByteSlice(i)
  \/ DoWriteAgain

SpecShared == InitShared /\ [][NextShared]_vars

\* views over arbitrary offsets: validation, key access, comparison, synthesis
InitViews ==
  /\ \E sc \in Free : data = sc.data /\ elems = sc.elems
  /\ arg = NoArgs
  /\ b = <<>>
  /\ ret = [op |-> "none"]

NextViews ==
  \/ \E i \in 1..Len(elems) : DoValidate(i)
  \/ \E i \in 1..Len(elems) : DoKeyOK(i)
  \/ \E i \in 1..Len(elems) : DoKey(i)
  \/ \E i \in 1..Len(elems), j \in 1..Len(elems) : DoEqual(i, j)
  \/ \E i \in 1..Len(elems) : DoClone(i)
  \/ \E i \in 1..Len(elems), key \in Keys : DoConvertValueToElem(i, key)

SpecViews == InitViews /\ [][NextViews]_vars

\* ------------------------------------------------------------ properties
IsWrite == ret.op = "writeByteSlice"

TagOf(e, buf) == IF IndexOK(buf, e.start) THEN buf[e.start + 1] ELSE -1

\* the capacity check turned the call away before anything was read
Rejected(w) == ~w.panic /\ w.err = "ErrTooSmall" /\ w.rd = 0

\* C1: with knownSize smaller than the size Validate returns, writeByteSlice
\* either fails with ErrTooSmall or writes at most knownSize bytes, all inside
\* [destStart, destStart+knownSize), and reads no source byte at or beyond
\* start+knownSize.
C1_SizePrecondition ==
  (IsWrite /\ ~ret.chain /\ ~ret.again) =>
    LET e == elems[ret.i]
        v == Validate(e, ret.data0)
    IN (~v.panic /\ v.err = "nil" /\ ret.size < v.n /\ ~ret.w.panic) =>
         \/ ret.w.err = "ErrTooSmall"
         \/ /\ ret.w.n <= ret.size
            /\ ret.w.rd <= e.start + ret.size
            /\ \A k \in 1..Len(b) :
                 (k <= ret.start \/ k > ret.start + ret.size) => b[k] = ret.b0[k]

\* C4: the capacity check comes first: a destination shorter than
\* destStart + knownSize (less the key region [start+1, offset) without the
\* key) is turned away with 0 bytes, ErrTooSmall and both buffers untouched,
\* and a destination that holds the bytes the write produces is not turned away.
C4_CapacityCheck ==
  (IsWrite /\ ~ret.chain /\ ~ret.again) =>
    LET e == elems[ret.i]
        required == ret.start + ret.size
                      - (IF ret.key THEN 0 ELSE e.offset - e.start - 1)
        ample == writeByteSlice(e, ret.key, ret.start, ret.size,
                                Zeros(ret.start + ret.size + 32), ret.data0)
    IN /\ Len(ret.b0) < required =>
            /\ ret.w.n = 0 /\ ret.w.err = "ErrTooSmall" /\ ~ret.w.panic
            /\ b = ret.b0 /\ data = ret.data0
       /\ (~ample.panic /\ ample.err = "nil"
           /\ Len(ret.b0) >= ret.start + ample.n) => ~Rejected(ret.w)

\* C5: a successful write of a code-with-scope element with an override
\* patches the total length at source offset `offset` to
\* 4 + 4 + codeLength + the override's validated size, copies the bytes from
\* startToWrite to the end of the code string verbatim (so the output carries
\* the same total), and has the override write the scope right after them with
\* its validated size.
C5_CodeWithScopeLength ==
  (IsWrite /\ ~ret.w.panic /\ ret.w.err = "nil"
   /\ TagOf(elems[ret.i], ret.data0) = TagCodeWithScope
   /\ elems[ret.i].d.present) =>
    LET e == elems[ret.i]
        o == e.offset
        codeLength == readi32(Slice(ret.data0, o + 4, o + 8))
        sv == Document_Validate(e.d).n
        total == 4 + 4 + codeLength + sv
        from == IF ret.key THEN e.start ELSE o
        pre == o + 8 + codeLength - from
    IN /\ Slice(data, o, o + 4) = le32(total)
       /\ \A k \in 1..Len(data) : (k <= o \/ k > o + 4) => data[k] = ret.data0[k]
       /\ Slice(b, ret.start, ret.start + pre) = Slice(data, from, o + 8 + codeLength)
       /\ Slice(b, ret.start + (o - from), ret.start + (o - from) + 4) = le32(total)
       /\ ret.w.dg.called /\ ret.w.dg.start = ret.start + pre /\ ret.w.dg.size = sv
       /\ Slice(b, ret.start + pre, ret.start + pre + sv) = le32(sv) \o e.d.body \o <<0>>
       /\ ret.w.n = pre + sv

\* a code-with-scope element whose stored total was stale has been rewritten
C5_Witness ==
  /\ IsWrite /\ ~ret.w.panic /\ ret.w.err = "nil"
  /\ TagOf(elems[ret.i], ret.data0) = TagCodeWithScope
  /\ elems[ret.i].d.present
  /\ Slice(ret.data0, 3, 7) = le32(9)
  /\ Slice(data, 3, 7) = le32(22)

\* C6: for a document or array element with an override, once knownSize
\* covers the header and the capacity check has passed, only the header
\* (tag, key, terminator) is copied from the source, and only with the key;
\* the override writes knownSize - header bytes' worth at destStart + header
\* (destStart without the key); the count is header bytes plus the override's;
\* the output's length prefix is the override's own size.
C6_ContainerOverride ==
  (IsWrite /\ ~ret.w.panic /\ ~Rejected(ret.w)
   /\ TagOf(elems[ret.i], ret.data0) \in {TagDocument, TagArray}
   /\ elems[ret.i].d.present
   /\ ret.size >= elems[ret.i].offset - elems[ret.i].start) =>
    LET e == elems[ret.i]
        hdr == e.offset - e.start
        copied == IF ret.key THEN hdr ELSE 0
        b1 == IF ret.key
              THEN copy(ret.b0, ret.start, Slice(ret.data0, e.start, e.offset)).b
              ELSE ret.b0
        dw == Document_writeByteSlice(e.d, ret.start + copied, ret.size - hdr, b1)
    IN /\ ret.w.dg.called /\ ret.w.dg.hdr = copied
       /\ ret.w.dg.start = ret.start + copied
       /\ ret.w.dg.size = ret.size - hdr
       /\ ret.w.n = copied + dw.n /\ ret.w.err = dw.err
       /\ b = dw.b /\ data = ret.data0
       /\ (ret.w.err = "nil" /\ ret.size = Validate(e, ret.data0).n) =>
            Slice(b, ret.start + copied, ret.start + copied + 4)
              = le32(Document_Validate(e.d).n)

\* an override larger than the raw document has been written with its key
C6_Witness ==
  /\ IsWrite /\ ~ret.w.panic /\ ret.w.err = "nil" /\ ret.key
  /\ TagOf(elems[ret.i], ret.data0) = TagDocument
  /\ elems[ret.i].d = DocBig
  /\ ret.w.n = 15
  /\ Slice(b, ret.start + 3, ret.start + 7) = le32(12)

\* C7: through writeElement into a byte slice, an error that the override's
\* own Validate or writeByteSlice surfaces reaches the caller unchanged.
C7_ErrorPropagation ==
  (ret.op = "writeElement" /\ ret.kind = "bytes" /\ ~ret.w.panic
   /\ elems[ret.i].d.present) =>
    LET e == elems[ret.i]
        v == Validate(e, ret.data0)
        dv == Document_Validate(e.d)
        inner == writeByteSlice(e, ret.key, ret.start, v.n, ret.b0, ret.data0)
    IN /\ dv.err # "nil" => ret.w.err = dv.err
       /\ (v.err = "nil" /\ inner.dg.called /\ inner.err # "nil") =>
            ret.w.err = inner.err

\* C10: a successful write of an element with no override whose tag is not
\* code-with-scope copies exactly data[startToWrite : start+knownSize] to the
\* destination at destStart, changes no other byte of either buffer and
\* returns the number of bytes copied; written where the previous write
\* stopped, it leaves that write's bytes in place and follows them directly.
C10_RawCopy ==
  (IsWrite /\ ~ret.w.panic /\ ret.w.err = "nil"
   /\ ~elems[ret.i].d.present
   /\ TagOf(elems[ret.i], ret.data0) # TagCodeWithScope) =>
    LET e == elems[ret.i]
        from == IF ret.key THEN e.start ELSE e.offset
        src == Slice(ret.data0, from, e.start + ret.size)
    IN /\ SliceOK(ret.data0, from, e.start + ret.size)
       /\ ret.w.n = Len(src)
       /\ Len(b) = Len(ret.b0)
       /\ \A k \in 1..Len(b) :
            b[k] = IF k > ret.start /\ k <= ret.start + Len(src)
                   THEN src[k - ret.start] ELSE ret.b0[k]
       /\ data = ret.data0
       /\ ret.chain =>
            /\ ret.start = ret.prev.start + ret.prev.n
            /\ Slice(b, ret.prev.start, ret.start)
                 = Slice(ret.b0, ret.prev.start, ret.start)
            /\ Slice(b, ret.start, ret.start + ret.w.n) = src

\* two elements of one buffer have been written back to back
C10_Witness ==
  /\ IsWrite /\ ret.chain /\ ~ret.w.panic /\ ret.w.err = "nil"
  /\ ~elems[ret.i].d.present
  /\ TagOf(elems[ret.i], ret.data0) = TagInt32
  /\ ret.prev.n > 0 /\ ret.w.n > 0

\* the key region [start+1, offset), clamped to the buffer, holds no 0x00
NoTerminator(e, buf) ==
  \A p \in (e.start + 1)..(Min(e.offset, Len(buf)) - 1) : buf[p + 1] # 0

\* C2: for an element with a buffer and any start and offset, if the key
\* region [start+1, offset) clamped to the buffer holds no 0x00 byte then
\* Validate returns InvalidKey and never indexes the buffer out of bounds.
C2_KeyBound ==
  (ret.op = "Validate"
   /\ ~elems[ret.i].isNil /\ elems[ret.i].hasValue /\ elems[ret.i].hasData
   /\ NoTerminator(elems[ret.i], data)) =>
    ~ret.r.panic /\ ret.r.err = "InvalidKey"

Unset(e) == e.isNil \/ ~e.hasValue \/ ~e.hasData

\* C3: on a nil element, an element without a value or an element without a
\* buffer, Validate returns NilElement or UninitializedElement, KeyOK returns
\* ("", false) and Equal returns a boolean, true only when both are unset;
\* none of them panics.
C3_NilSafety ==
  /\ (ret.op = "Validate" /\ Unset(elems[ret.i])) =>
       /\ ~ret.r.panic
       /\ ret.r.err = IF elems[ret.i].isNil THEN "NilElement"
                      ELSE "UninitializedElement"
  /\ (ret.op = "KeyOK" /\ Unset(elems[ret.i])) =>
       ~ret.r.panic /\ ~ret.r.ok /\ ret.r.key = <<>>
  /\ (ret.op = "Equal" /\ (Unset(elems[ret.i]) \/ Unset(elems[ret.j]))) =>
       /\ ~ret.r.panic
       /\ ret.r.eq => (Unset(elems[ret.i]) /\ Unset(elems[ret.j]))

\* C8: convertValueToElem returns nil for a nil value, an offset of 0 or a
\* missing buffer; otherwise the new element's buffer is exactly
\* tag, key, 0x00 and that value's own payload, of length
\* 1 + len(key) + 1 + payload length whatever follows the payload in the
\* source; the element has start 0, offset len(key)+2 and the given key.
C8_TightBuffer ==
  (ret.op = "convertValueToElem" /\ ~ret.r.panic) =>
    LET e == elems[ret.i]
        pv == Value_validate(e, data)
    IN IF e.isNil \/ ~e.hasValue \/ e.offset = 0 \/ ~e.hasData
       THEN ret.r.isNil
       ELSE (Validate(e, data).err = "nil" /\ ~Validate(e, data).panic) =>
              /\ ~ret.r.isNil
              /\ ret.r.data = <<data[e.start + 1]>> \o ret.key \o <<0>>
                                \o Slice(data, e.offset, e.offset + pv.n)
              /\ Len(ret.r.data) = 1 + Len(ret.key) + 1 + pv.n
              /\ ret.r.elem.start = 0
              /\ ret.r.elem.offset = Len(ret.key) + 2
              /\ KeyOK(ret.r.elem, ret.r.data).ok
              /\ KeyOK(ret.r.elem, ret.r.data).key = ret.key

\* C9: no call changes the shared source buffer, except that writing a
\* code-with-scope element may change the 4 bytes [offset, offset+4) of its
\* total length; the same write repeated leaves the source buffer as the first
\* left it and produces the same destination bytes and the same count.
C9_SourceFrame ==
  [][/\ data' # data =>
          /\ ret'.op = "writeByteSlice"
          /\ TagOf(elems[ret'.i], data) = TagCodeWithScope
          /\ Len(data') = Len(data)
          /\ \A k \in 1..Len(data) :
               data'[k] # data[k] =>
                 (k > elems[ret'.i].offset /\ k <= elems[ret'.i].offset + 4)
     /\ (ret'.op = "writeByteSlice" /\ ret'.again) =>
          /\ data' = data /\ b' = b
          /\ ret'.w.n = ret.w.n /\ ret'.w.err = ret.w.err]_vars

\* a clone's code-with-scope write has been repeated after it patched a total
C9_Witness ==
  /\ IsWrite /\ ret.again /\ ret.i = 2 /\ ret.w.err = "nil"
  /\ TagOf(elems[ret.i], data) = TagCodeWithScope
  /\ elems[2] = elems[1]
  /\ Slice(data, 3, 7) = le32(22)
====
